---- MODULE Spec2Model ----
(***************************************************************************)
(* Model of scripts/migrate_remaining_auth.py: the Locator                 *)
(* (find_files_with_deprecated_auth), the Patcher (migrate_file) and the   *)
(* orchestrator (main).                                                    *)
(*                                                                         *)
(* A file's text is a sequence of fragments.  A fragment is a piece of     *)
(* source text that the script's regular expressions either match as a     *)
(* whole or not at all; consecutive fragments are separated by white       *)
(* space, which every pattern of the script tolerates (\s*, \s+) and which *)
(* no rule rewrites on its own.  The fragments and their texts:            *)
(*   "import{"          import {                                           *)
(*   "verifyAuthToken"  the bare identifier (in an import list, a comment, *)
(*                      or a call of a shape no rule knows)                *)
(*   ","                ,                                                  *)
(*   "UserType"         the bare identifier UserType                       *)
(*   "}from-auth"       } from '@/lib/auth';                               *)
(*   "}from-other"      } from '@/types';                                  *)
(*   "callStaff"        const authResult = await verifyAuthToken(request); *)
(*                      if (!authResult.isValid || !authResult.staff)      *)
(*                      { return NextResponse.json({ error:                *)
(*                      'Authentication required' }, { status: 401 }); }   *)
(*   "callUser"         the same block testing !authResult.user            *)
(*   "staffRid"         authResult.staff.restaurantId                      *)
(*   "userUserId"       authResult.user.user.id                            *)
(*   "typeEqPA/RO/ST"   authResult.user.type === UserType.PLATFORM_ADMIN   *)
(*                      / .RESTAURANT_OWNER / .STAFF                       *)
(*   "usePA/RO/ST"      UserType.PLATFORM_ADMIN / ... used anywhere else   *)
(*   "code"             any other text                                     *)
(* and the texts the rules write:                                          *)
(*   "newImport"        import { AuthServiceV2 } from                      *)
(*                      '@/lib/rbac/auth-service';                         *)
(*   "template"         RBAC_AUTH_TEMPLATE                                 *)
(*   "roleRid"          authResult.user.currentRole?.restaurantId          *)
(*   "userId"           authResult.user.id                                 *)
(*   "nePA/RO/ST"       const userType = ...; if (userType !== '...')      *)
(***************************************************************************)
EXTENDS Integers, Sequences, FiniteSets, TLC

\* ------------------------------------------------------------------ bounds
\* Longest text (in fragments) the Patcher is applied to in SpecPatch.
MaxLen == 3
\* Number of times migrate_file is called on the same file in SpecPatch.
MaxCalls == 2
\* Number of files under the scan root in Spec.
NumFiles == 2

\* ------------------------------------------------------------ text fragments
SourceFragments ==
    { "import{", "verifyAuthToken", ",", "UserType", "}from-auth", "}from-other",
      "callStaff", "callUser", "staffRid", "userUserId",
      "typeEqPA", "typeEqRO", "typeEqST", "usePA", "useRO", "useST", "code" }

RBAC_AUTH_TEMPLATE == "template"

\* 'verifyAuthToken' in content  (substring test over the whole text)
MarkerFragments == { "verifyAuthToken", "callStaff", "callUser" }

HasMarker(content) == \E i \in 1..Len(content) : content[i] \in MarkerFragments

\* Fragments whose text holds a closing brace: [^}]* cannot run across them.
BraceFragments ==
    { "}from-auth", "}from-other", "callStaff", "callUser", "newImport", "template" }

\* 'UserType.PLATFORM_ADMIN' in content, and the two other usage forms.
UsesPlatformAdmin(content) ==
    \E i \in 1..Len(content) : content[i] \in { "typeEqPA", "usePA" }

UsesRestaurantOwner(content) ==
    \E i \in 1..Len(content) : content[i] \in { "typeEqRO", "useRO" }

UsesStaff(content) ==
    \E i \in 1..Len(content) : content[i] \in { "typeEqST", "useST" }

\* ----------------------------------------------------------------- re.sub
\* re.sub of a pattern that matches exactly one fragment.
SubFragment(content, from, to) ==
    [ i \in 1..Len(content) |-> IF content[i] = from THEN to ELSE content[i] ]

\* re.sub(pattern, '', content) of a pattern that matches fragment a followed
\* (after optional white space) by fragment b: leftmost matches, not
\* overlapping, the result not scanned again.
RECURSIVE RemovePairsFrom(_, _, _, _)
RemovePairsFrom(content, i, a, b) ==
    IF i > Len(content) THEN << >>
    ELSE IF i < Len(content) /\ content[i] = a /\ content[i + 1] = b
         THEN RemovePairsFrom(content, i + 2, a, b)
         ELSE << content[i] >> \o RemovePairsFrom(content, i + 1, a, b)

RemovePairs(content, a, b) == RemovePairsFrom(content, 1, a, b)

\* Index of the first fragment after i that holds a closing brace, 0 if none.
FirstBraceAfter(content, i) ==
    LET js == { j \in (i + 1)..Len(content) : content[j] \in BraceFragments }
    IN  IF js = {} THEN 0 ELSE CHOOSE j \in js : \A k \in js : j <= k

\* import\s+{[^}]*verifyAuthToken[^}]*}\s+from\s+['"]@/lib/auth['"];?  at i
ImportMatchesAt(content, i) ==
    LET j == FirstBraceAfter(content, i)
    IN  /\ content[i] = "import{"
        /\ j # 0
        /\ content[j] = "}from-auth"
        /\ \E k \in (i + 1)..(j - 1) : content[k] = "verifyAuthToken"

RECURSIVE ReplaceImportFrom(_, _)
ReplaceImportFrom(content, i) ==
    IF i > Len(content) THEN << >>
    ELSE IF ImportMatchesAt(content, i)
         THEN << "newImport" >>
              \o ReplaceImportFrom(content, FirstBraceAfter(content, i) + 1)
         ELSE << content[i] >> \o ReplaceImportFrom(content, i + 1)

\* ------------------------------------------------------ the nine rules
\* Rule 1: replace import statement.
ReplaceImport(content) == ReplaceImportFrom(content, 1)

\* The condition of rule 2.
UserTypeUnused(content) ==
    /\ ~UsesPlatformAdmin(content)
    /\ ~UsesRestaurantOwner(content)
    /\ ~UsesStaff(content)

\* Faulty variant: only the first substitution of rule 2.
StripUserTypeLeadingComma(content) == RemovePairs(content, ",", "UserType")

\* The two substitutions of rule 2:  ,\s*UserType  then  UserType\s*,
StripUserType(content) ==
    RemovePairs(RemovePairs(content, ",", "UserType"), "UserType", ",")

\* Rule 2: remove UserType import if it exists and isn't used elsewhere.
RemoveUserTypeImport(content) ==
    IF UserTypeUnused(content) THEN StripUserType(content) ELSE content

\* Rule 3: Pattern 1, staff only.
ReplaceStaffCall(content) == SubFragment(content, "callStaff", RBAC_AUTH_TEMPLATE)

\* Rule 4: Pattern 2, user only.
ReplaceUserCall(content) == SubFragment(content, "callUser", RBAC_AUTH_TEMPLATE)

\* Rule 5: authResult.staff.restaurantId
ReplaceRestaurantId(content) == SubFragment(content, "staffRid", "roleRid")

\* Rule 6: authResult.user.user.id
ReplaceUserId(content) == SubFragment(content, "userUserId", "userId")

\* Rules 7-9: authResult.user.type === UserType.X
ReplacePlatformAdmin(content) == SubFragment(content, "typeEqPA", "nePA")

ReplaceRestaurantOwner(content) == SubFragment(content, "typeEqRO", "neRO")

ReplaceStaff(content) == SubFragment(content, "typeEqST", "neST")

\* The text migrate_file computes from the text it read (lines 55-114).
Substitute(content) ==
    ReplaceStaff(ReplaceRestaurantOwner(ReplacePlatformAdmin(
      ReplaceUserId(ReplaceRestaurantId(
        ReplaceUserCall(ReplaceStaffCall(
          RemoveUserTypeImport(ReplaceImport(content)))))))))


\* ------------------------------------------------------------------- state
VARIABLES
    projectExists,  \* the hard-coded project directory exists (os.chdir target)
    rootExists,     \* src/app/api exists below it
    disk,           \* path -> [ts: the name ends in .ts, text: the file's text]
    disk0,          \* the files as they were when the run started (history)
    pc,             \* where main is
    files,          \* main's candidate list
    idx,            \* position of the for loop over files
    migrated,       \* main's counter
    remaining,      \* the list of the second search
    out,            \* what has been printed, in order
    written,        \* paths opened for writing, in order (history)
    calls,          \* paths passed to migrate_file, in order (history)
    ret             \* outcome of the last migrate_file call

vars == << projectExists, rootExists, disk, disk0, pc, files, idx, migrated,
           remaining, out, written, calls, ret >>

\* The path names of the model: 1..NumFiles, listed by find in this order.
Paths == 1..NumFiles

\* '' : the one "line" that ''.strip().split('\n') yields for an empty listing.
NoPath == 0

\* One printed line: what it says and the (up to two) values it shows.
Line(kind, a, b) == << kind, a, b >>

RECURSIVE SeqOfSet(_)
SeqOfSet(S) ==
    IF S = {} THEN << >>
    ELSE LET m == CHOOSE x \in S : \A y \in S : x <= y
         IN  << m >> \o SeqOfSet(S \ { m })

RECURSIVE TextsUpTo(_, _)
TextsUpTo(alphabet, n) ==
    IF n = 0 THEN { << >> }
    ELSE LET shorter == TextsUpTo(alphabet, n - 1)
         IN  shorter \cup { Append(t, x) : t \in shorter, x \in alphabet }

\* The route files the runs of main start from.
SampleTexts ==
    { << "code" >>,
      << "verifyAuthToken" >>,
      << "staffRid" >>,
      << "import{", "verifyAuthToken", "}from-auth", "callStaff", "staffRid" >>,
      << "import{", "verifyAuthToken", "}from-auth", "verifyAuthToken", "code" >>,
      << "import{", "UserType", ",", "}from-other", "callUser", "typeEqST" >> }

\* ------------------------------------------------------------------ Locator
\* stdout of  find src/app/api -name '*.ts' -type f : nothing when the
\* directory is missing (find complains on stderr and exits 1; subprocess.run
\* is called without check=True, so nothing is raised).
FindStdout ==
    IF rootExists THEN SeqOfSet({ p \in DOMAIN disk : disk[p].ts }) ELSE << >>

\* result.stdout.strip().split('\n')
StdoutLines == IF FindStdout = << >> THEN << NoPath >> ELSE FindStdout

\* Faulty variant: the empty line of an empty listing is not skipped.
IsPathAlways(file_path) == TRUE

\* if not file_path: continue
IsPath(file_path) == file_path # NoPath

\* The paths the loop of find_files_with_deprecated_auth opens.
ScannedPaths == SelectSeq(StdoutLines, IsPath)

\* Faulty variant: only the head of the file is searched for the marker.
IsCandidateHeadOnly(file_path) ==
    /\ disk[file_path].text # << >>
    /\ disk[file_path].text[1] \in MarkerFragments

\* Faulty variant: every listed file is taken, marker or not.
IsCandidateAlways(file_path) == TRUE

\* if 'verifyAuthToken' in content
IsCandidate(file_path) == HasMarker(disk[file_path].text)

\* What find_files_with_deprecated_auth returns when every open succeeds.
find_files_with_deprecated_auth == SelectSeq(ScannedPaths, IsCandidate)

\* Some open() of the Locator raises: a listed path that is no file always
\* does, any other may (permissions, I/O error).
LocatorCanRaise == ScannedPaths # << >>

LocatorMustRaise ==
    \E i \in 1..Len(ScannedPaths) : ScannedPaths[i] \notin DOMAIN disk

\* Faulty variant: the candidate paths are not printed.
CandidateLinesNone(fs, i) == << >>

\* for f in files: print(f"  - {f}")   (lines 136-137)
RECURSIVE CandidateLines(_, _)
CandidateLines(fs, i) ==
    IF i > Len(fs) THEN << >>
    ELSE << Line("candidate", fs[i], 0) >> \o CandidateLines(fs, i + 1)

RECURSIVE RemainingLines(_, _)
RemainingLines(fs, i) ==
    IF i > Len(fs) THEN << >>
    ELSE << Line("remaining", fs[i], 0) >> \o RemainingLines(fs, i + 1)

\* ------------------------------------------------------------------ Patcher
\* What a failed write can leave in the file: open(file_path, 'w') raised
\* (the file keeps its text), or f.write stopped part-way.
FailedWrites(original_content, content) ==
    { original_content } \cup { SubSeq(content, 1, k) : k \in 0..(Len(content) - 1) }

IOOutcomes == { "ok", "read fails", "write fails" }

\* Faulty variant: the comparison dropped: every file is rewritten.
ContentChangedAlways(original_content, content) == TRUE

\* Faulty variant: success means "fully migrated" rather than "text changed at all".
ContentChangedAndClean(original_content, content) ==
    content # original_content /\ ~HasMarker(content)

\* if content != original_content   (line 117)
ContentChanged(original_content, content) == content # original_content

\* One call  migrate_file(file_path); io is what the file system does.
migrate_file(file_path, io) ==
    LET original_content == disk[file_path].text
        content == Substitute(original_content)
        changed == ContentChanged(original_content, content)
        started == Append(out, Line("Migrating", file_path, 0))
    IN  /\ calls' = Append(calls, file_path)
        /\ \/ /\ io = "read fails"
              /\ ret' = "raised"
              /\ out' = started
              /\ UNCHANGED << disk, written >>
           \/ /\ io = "ok"
              /\ changed
              /\ disk' = [ disk EXCEPT ![file_path].text = content ]
              /\ written' = Append(written, file_path)
              /\ out' = Append(started, Line("Migrated successfully", file_path, 0))
              /\ ret' = "True"
           \/ /\ io = "write fails"
              /\ changed
              /\ \E left \in FailedWrites(original_content, content) :
                    disk' = [ disk EXCEPT ![file_path].text = left ]
              /\ written' = Append(written, file_path)
              /\ out' = started
              /\ ret' = "raised"
           \/ /\ io # "read fails"
              /\ ~changed
              /\ out' = Append(started, Line("No changes needed", file_path, 0))
              /\ ret' = "False"
              /\ UNCHANGED << disk, written >>

\* --------------------------------------------------------------------- main
Init ==
    /\ projectExists \in BOOLEAN
    /\ rootExists \in BOOLEAN
    /\ rootExists => projectExists
    /\ disk \in IF rootExists
                THEN [ Paths -> [ ts : BOOLEAN, text : SampleTexts ] ]
                ELSE { << >> }
    /\ disk0 = disk
    /\ pc = "start"
    /\ files = << >>
    /\ idx = 1
    /\ migrated = 0
    /\ remaining = << >>
    /\ out = << >>
    /\ written = << >>
    /\ calls = << >>
    /\ ret = "none"

\* Lines 127-131: the banner, then os.chdir, which raises when the project
\* directory is missing.
Chdir ==
    /\ pc = "start"
    /\ out' = out \o << Line("banner", 0, 0), Line("finding", 0, 0) >>
    /\ pc' = IF projectExists THEN "locate" ELSE "crashed"
    /\ UNCHANGED << projectExists, rootExists, disk, disk0, files, idx, migrated,
                    remaining, written, calls, ret >>

\* Lines 133-139: the first search and the candidate list.
Locate ==
    /\ pc = "locate"
    /\ \/ /\ ~LocatorMustRaise
          /\ files' = find_files_with_deprecated_auth
          /\ out' = out \o << Line("found", Len(files'), 0) >>
                        \o CandidateLines(files', 1)
                        \o << Line("separator", 0, 0) >>
          /\ pc' = "prompt"
       \/ /\ LocatorCanRaise
          /\ pc' = "crashed"
          /\ UNCHANGED << files, out >>
    /\ UNCHANGED << projectExists, rootExists, disk, disk0, idx, migrated,
                    remaining, written, calls, ret >>

\* Line 140: input() returns.
PromptEnter ==
    /\ pc = "prompt"
    /\ out' = Append(out, Line("prompt", 0, 0))
    /\ pc' = "migrate"
    /\ idx' = 1
    /\ migrated' = 0
    /\ UNCHANGED << projectExists, rootExists, disk, disk0, files, remaining,
                    written, calls, ret >>

\* Line 140: input() raises (EOFError on closed input, KeyboardInterrupt).
PromptAbort ==
    /\ pc = "prompt"
    /\ out' = Append(out, Line("prompt", 0, 0))
    /\ pc' = "aborted"
    /\ UNCHANGED << projectExists, rootExists, disk, disk0, files, idx, migrated,
                    remaining, written, calls, ret >>

\* Faulty variant: the exception of a failed file is swallowed and the loop goes on.
AfterCallKeepGoing(r) == "migrate"

\* Nothing catches what migrate_file raises: the run ends there.
AfterCall(r) == IF r = "raised" THEN "crashed" ELSE "migrate"

\* Lines 143-145: one turn of the loop.
MigrateNext ==
    /\ pc = "migrate"
    /\ idx <= Len(files)
    /\ \E io \in IOOutcomes : migrate_file(files[idx], io)
    /\ migrated' = IF ret' = "True" THEN migrated + 1 ELSE migrated
    /\ idx' = IF ret' = "raised" THEN idx ELSE idx + 1
    /\ pc' = AfterCall(ret')
    /\ UNCHANGED << projectExists, rootExists, disk0, files, remaining >>

\* Lines 147-149: the loop is over; the summary.
Summary ==
    /\ pc = "migrate"
    /\ idx > Len(files)
    /\ out' = out \o << Line("separator", 0, 0), Line("complete", 0, 0),
                        Line("Successfully migrated", migrated, Len(files)) >>
    /\ pc' = "recheck"
    /\ UNCHANGED << projectExists, rootExists, disk, disk0, files, idx, migrated,
                    remaining, written, calls, ret >>

\* Faulty variant: the report repeats the first list instead of searching again.
StaleCandidates == files

\* remaining = find_files_with_deprecated_auth()   (line 152)
RemainingSearch == find_files_with_deprecated_auth

\* Lines 152-158: the second search and its report.
Recheck ==
    /\ pc = "recheck"
    /\ \/ /\ ~LocatorMustRaise
          /\ remaining' = RemainingSearch
          /\ out' = IF remaining' # << >>
                    THEN out \o << Line("still need manual migration", Len(remaining'), 0) >>
                             \o RemainingLines(remaining', 1)
                    ELSE Append(out, Line("All files migrated successfully", 0, 0))
          /\ pc' = "done"
       \/ /\ LocatorCanRaise
          /\ pc' = "crashed"
          /\ UNCHANGED << remaining, out >>
    /\ UNCHANGED << projectExists, rootExists, disk, disk0, files, idx, migrated,
                    written, calls, ret >>

main == Chdir \/ Locate \/ PromptEnter \/ PromptAbort \/ MigrateNext \/ Summary \/ Recheck

Next == main

Spec == Init /\ [][Next]_vars

\* ------------------------------------------- the Patcher on its own
\* One file of any text up to MaxLen fragments; migrate_file is called on it
\* MaxCalls times in a row (the script run again on its own output), with a
\* file system that does not fail.
TheFile == 1

InitPatch ==
    /\ projectExists = TRUE
    /\ rootExists = TRUE
    /\ disk \in [ { TheFile } -> [ ts : { TRUE }, text : TextsUpTo(SourceFragments, MaxLen) ] ]
    /\ disk0 = disk
    /\ pc = "patch"
    /\ files = << >>
    /\ idx = 1
    /\ migrated = 0
    /\ remaining = << >>
    /\ out = << >>
    /\ written = << >>
    /\ calls = << >>
    /\ ret = "none"

PatchCall ==
    /\ pc = "patch"
    /\ Len(calls) < MaxCalls
    /\ migrate_file(TheFile, "ok")
    /\ UNCHANGED << projectExists, rootExists, disk0, pc, files, idx, migrated,
                    remaining >>

NextPatch == PatchCall

SpecPatch == InitPatch /\ [][NextPatch]_vars


\* ================================================================== claims
Printed(line) == \E i \in 1..Len(out) : out[i] = line

PrintedKind(kind) == \E i \in 1..Len(out) : out[i][1] = kind

Elements(seq) == { seq[i] : i \in 1..Len(seq) }

Increasing(seq) == \A i, j \in 1..Len(seq) : i < j => seq[i] < seq[j]

ContainsMarker(text) ==
    \E i \in 1..Len(text) : text[i] \in { "verifyAuthToken", "callStaff", "callUser" }

\* The first search has returned.
Located == PrintedKind("found")

\* The .ts files that held the marker when the run started.
InitialCandidates ==
    { p \in DOMAIN disk0 : disk0[p].ts /\ ContainsMarker(disk0[p].text) }

\* ---- C1 (SpecPatch) ----------------------------------------------------
\* C1: every migrate_file call that returns writes the file if and only if
\* the text after all substitution rules differs from the text it read; it
\* then returns True and the file holds the new text; otherwise the file is
\* left as it was, nothing is opened for writing, and it returns False.
C1_WrittenIffChanged ==
    [][ (calls' # calls /\ ret' # "raised") =>
          LET p == calls'[Len(calls')]
              before == disk[p].text
              after == Substitute(before)
          IN  /\ ret' \in { "True", "False" }
              /\ (ret' = "True") <=> (after # before)
              /\ (ret' = "True") =>
                    /\ disk' = [ disk EXCEPT ![p].text = after ]
                    /\ written' = Append(written, p)
              /\ (ret' = "False") => (disk' = disk /\ written' = written) ]_vars

\* Both cases have happened: the first call wrote, the second did not.
C1_Witness ==
    /\ Len(calls) = 2
    /\ written = << TheFile >>
    /\ disk # disk0
    /\ ret = "False"

\* ---- C2 (Spec) ---------------------------------------------------------
\* C2: no file is written before the confirmation prompt has returned: up to
\* and at the prompt, and in a run that ends at the prompt, every file is as
\* it was at startup and migrate_file has not been called; and once
\* migrate_file has been called or a file differs, the output starts with
\* the candidate count, every candidate path, and the prompt.
C2_NoWriteBeforePrompt ==
    /\ pc \in { "start", "locate", "prompt", "aborted" } =>
          (disk = disk0 /\ written = << >> /\ calls = << >>)
    /\ (calls # << >> \/ written # << >> \/ disk # disk0) =>
          /\ Len(out) >= Len(files) + 5
          /\ out[3] = Line("found", Len(files), 0)
          /\ \A i \in 1..Len(files) : out[3 + i] = Line("candidate", files[i], 0)
          /\ out[Len(files) + 5] = Line("prompt", 0, 0)

\* A run that ended at the prompt with candidates listed.
C2_Witness ==
    /\ pc = "aborted"
    /\ Len(files) = 2
    /\ Printed(Line("candidate", files[2], 0))

\* ---- C3 (Spec) ---------------------------------------------------------
\* C3: the list the first search returns holds exactly the .ts files under
\* the scan root whose text contains the marker, wherever in the text it
\* occurs, each once and in the order of the listing.
C3_LocatorExact ==
    Located =>
      /\ Elements(files) = InitialCandidates
      /\ Increasing(files)

\* A candidate whose marker is not at the head of the file, beside a .ts file
\* without the marker that was left out.
C3_Witness ==
    /\ Located
    /\ \E p \in Elements(files) : ~(disk0[p].text[1] \in MarkerFragments)
    /\ \E p \in DOMAIN disk0 : disk0[p].ts /\ p \notin Elements(files)

\* ---- C4 (SpecPatch) ----------------------------------------------------
\* C4: idempotence: the second migrate_file call on a file changes nothing;
\* it does not write and returns False.
C4_SecondRunChangesNothing ==
    Len(calls) = 2 => (ret = "False" /\ Len(written) <= 1)

\* ---- C5 (SpecPatch) ----------------------------------------------------
HasUserTypeItem(text) ==
    \E i \in 1..(Len(text) - 1) :
        \/ text[i] = "," /\ text[i + 1] = "UserType"
        \/ text[i] = "UserType" /\ text[i + 1] = ","

NoUsageForm(text) ==
    \A i \in 1..Len(text) :
        text[i] \notin { "typeEqPA", "typeEqRO", "typeEqST", "usePA", "useRO", "useST" }

\* The file of a first call held a UserType import item and no usage form.
C5_Case ==
    /\ Len(calls) = 1
    /\ HasUserTypeItem(disk0[TheFile].text)
    /\ NoUsageForm(disk0[TheFile].text)

\* C5 as stated: for such a file, the UserType-stripping rule applied to the
\* text as it was before rule 1 does not strip the import.
C5_NotStrippedBeforeRule1 ==
    C5_Case => RemoveUserTypeImport(disk0[TheFile].text) = disk0[TheFile].text

\* C5 as amended: for such a file the condition of rule 2 holds before rule 1
\* as well as after it, and the stripping rule applied to the text as it was
\* before rule 1 does strip a UserType item.
C5_StrippedBeforeRule1Too ==
    C5_Case =>
      /\ UserTypeUnused(disk0[TheFile].text)
      /\ UserTypeUnused(ReplaceImport(disk0[TheFile].text))
      /\ RemoveUserTypeImport(disk0[TheFile].text) # disk0[TheFile].text
      /\ Len(RemoveUserTypeImport(disk0[TheFile].text))
            <= Len(disk0[TheFile].text) - 2

\* Such a file, whose item only the second substitution (UserType\s*,) finds.
C5_Witness ==
    /\ C5_Case
    /\ \E i \in 1..(Len(disk0[TheFile].text) - 1) :
          disk0[TheFile].text[i] = "UserType" /\ disk0[TheFile].text[i + 1] = ","
    /\ ret = "True"

PartlyMigrated(p) ==
    /\ p \in Elements(files)
    /\ Substitute(disk0[p].text) # disk0[p].text
    /\ ContainsMarker(Substitute(disk0[p].text))

\* C7: in a finished run every such candidate was written, was reported as
\* migrated successfully, is counted in the "Successfully migrated" count,
\* and is listed among the files that still need manual migration.
C7_PartialCountsAsSuccess ==
    pc = "done" =>
      /\ \A p \in DOMAIN disk0 : PartlyMigrated(p) =>
            /\ p \in Elements(written)
            /\ disk[p].text = Substitute(disk0[p].text)
            /\ Printed(Line("Migrated successfully", p, 0))
            /\ p \in Elements(remaining)
            /\ Printed(Line("remaining", p, 0))
      /\ migrated =
            Cardinality({ p \in DOMAIN disk0 : Printed(Line("Migrated successfully", p, 0)) })
      /\ Printed(Line("Successfully migrated", migrated, Len(files)))

C7_Witness ==
    /\ pc = "done"
    /\ \E p \in DOMAIN disk0 : PartlyMigrated(p)
    /\ migrated = 1

\* ---- C8 (Spec) ---------------------------------------------------------
\* C8: when reading or writing the k-th candidate fails, the run ends there
\* and nothing is rolled back: the candidates before it hold their rewritten
\* text, the candidates after it are neither passed to migrate_file nor
\* changed, and neither the summary nor the remaining-files report is
\* printed.
C8_AbortWithoutRollback ==
    ret = "raised" =>
      /\ pc = "crashed"
      /\ ~ENABLED Next
      /\ calls = SubSeq(files, 1, idx)
      /\ \A i \in 1..(idx - 1) :
            disk[files[i]].text = Substitute(disk0[files[i]].text)
      /\ \A i \in (idx + 1)..Len(files) :
            /\ disk[files[i]] = disk0[files[i]]
            /\ files[i] \notin Elements(written)
      /\ ~PrintedKind("complete")
      /\ ~PrintedKind("Successfully migrated")
      /\ ~PrintedKind("still need manual migration")
      /\ ~PrintedKind("All files migrated successfully")

\* The second candidate failed after the first had been rewritten.
C8_Witness ==
    /\ ret = "raised"
    /\ idx = 2
    /\ disk[files[1]] # disk0[files[1]]

\* ---- C9 (Spec) ---------------------------------------------------------
\* C9: the second search runs after every candidate has been processed and
\* reports exactly the .ts files that hold the marker then; every candidate
\* for which migrate_file returned False is among them; and "All files
\* migrated successfully" is printed only when no scanned file holds the
\* marker.
C9_RemainingReport ==
    /\ pc \in { "recheck", "done" } => calls = files
    /\ pc = "done" =>
          /\ Elements(remaining) =
                { p \in DOMAIN disk : disk[p].ts /\ ContainsMarker(disk[p].text) }
          /\ Increasing(remaining)
          /\ \A p \in Elements(remaining) : Printed(Line("remaining", p, 0))
          /\ \A p \in Elements(files) :
                Printed(Line("No changes needed", p, 0)) => p \in Elements(remaining)
          /\ Printed(Line("All files migrated successfully", 0, 0)) <=>
                ~\E p \in DOMAIN disk : disk[p].ts /\ ContainsMarker(disk[p].text)
          /\ remaining # << >> =>
                Printed(Line("still need manual migration", Len(remaining), 0))

\* One candidate needed no change and is reported; the other was cleaned.
C9_Witness ==
    /\ pc = "done"
    /\ Len(files) = 2
    /\ Len(remaining) = 1
    /\ Printed(Line("No changes needed", remaining[1], 0))

\* ---- C10 (Spec) --------------------------------------------------------
\* C10: only files of the initial candidate list are ever written; the
\* candidates are passed to migrate_file in order, none twice, and all of
\* them by the time the loop is over; the remaining list is a subset of the
\* initial candidate list; the migrated count never exceeds the candidate
\* count.
C10_OnlyCandidatesTouched ==
    /\ \A p \in DOMAIN disk : p \notin InitialCandidates => disk[p] = disk0[p]
    /\ Elements(written) \subseteq InitialCandidates
    /\ Elements(calls) \subseteq InitialCandidates
    /\ Len(calls) <= Len(files)
    /\ calls = SubSeq(files, 1, Len(calls))
    /\ Increasing(calls)
    /\ pc \in { "recheck", "done" } => Elements(calls) = InitialCandidates
    /\ Elements(remaining) \subseteq InitialCandidates
    /\ migrated <= Len(files)
    /\ \A i \in 1..Len(out) :
          out[i][1] = "Successfully migrated" => out[i][2] <= out[i][3]

\* A finished run that left alone a .ts file which the rules would change
\* but which never held the marker.
C10_Witness ==
    /\ pc = "done"
    /\ files # << >>
    /\ \E p \in DOMAIN disk :
          /\ disk[p].ts
          /\ p \notin InitialCandidates
          /\ Substitute(disk[p].text) # disk[p].text

====
